---- MODULE Spec2Model ----
(***************************************************************************)
(* Model of the endpoint handlers of src/src/stable-diffusion.js (SD WebUI *)
(* and ComfyUI relays) and of src/unnamed/part_000 (hosted-provider        *)
(* relays).  A handler is an async function: every action below is one run *)
(* of a handler from one suspension point (await) to the next.             *)
(***************************************************************************)
EXTENDS Integers, Sequences, FiniteSets, TLC

VARIABLES
    \* ---- /api/sd/comfy/generate, one entry per concurrent request ----
    pc,         \* position of the handler: idle, submit, poll, delay, view, done
    body,       \* request.body.url as received
    id,         \* data.prompt_id
    item,       \* the history entry found for id (absent until a poll finds it)
    outbound,   \* the outbound calls and delays issued so far, in order
    results,    \* how each awaited outbound call ended, in order
    respStatus, \* status sent to the caller (0: nothing sent yet)
    respBody,   \* what the response carries
    history,    \* the backend's history collection, keyed by job id
    \* ---- one request to any other handler ----
    handler,    \* the endpoint the request went to ("none" before it arrives)
    rpc,        \* position of the handler: idle, await, progress, wait, done
    req,        \* the request: body.url, body.api, whether a file was uploaded
    calls,      \* the outbound calls and delays issued so far, in order
    settled,    \* how each awaited outbound call ended, in order; for a
                \* progress GET that was read, what it reported
    inflight,   \* /api/sd/upscalers: the fetches not yet settled
    got,        \* /api/sd/upscalers: the name lists received so far
    attempt,    \* /api/sd/set-model: the loop counter
    status,     \* status sent to the caller (0: nothing sent yet)
    sent,       \* what the response carries
    keys,       \* the providers whose API secret is configured
    fileOnDisk, \* /api/openai/transcribe-audio: the uploaded file exists
    forwarded,  \* the handlers that have sent a backend's error text to a caller
    \* ---- safeStr applied to a prompt, and to its own result ----
    x,          \* the string to sanitize
    once,       \* safeStr(x)
    twice,      \* safeStr(safeStr(x))
    spc         \* input, once, twice

comfyVars == <<pc, body, id, item, outbound, results, respStatus, respBody, history>>

relayVars == <<handler, rpc, req, calls, settled, inflight, got, attempt, status,
               sent, keys, fileOnDisk, forwarded>>

safeVars == <<x, once, twice, spc>>

vars == <<comfyVars, relayVars, safeVars>>

-----------------------------------------------------------------------------
(* Bounds *)

MaxPolls == 2   \* history polls that may miss before the backend must answer otherwise
MaxNodes == 2   \* node outputs in one history entry
MaxList == 2    \* names in a list of upscalers the backend returns
MaxRuns == 3    \* runs of equal characters in a string given to safeStr

-----------------------------------------------------------------------------
(* URLs.  A URL is kept as its components; a query is a sequence of        *)
(* <<key, value>> pairs.                                                   *)

Url(scheme, host, port, path, query) ==
    [scheme |-> scheme, host |-> host, port |-> port, path |-> path, query |-> query]

NoUrl == Url("", "", "", "", <<>>)

\* What a client may put in request.body.url.
RawUrls ==
    { [valid |-> FALSE, url |-> NoUrl],
      [valid |-> TRUE, url |-> Url("http", "localhost", "7860", "", <<>>)],
      [valid |-> TRUE, url |-> Url("http", "sd.lan", "80", "/", <<>>)],
      [valid |-> TRUE, url |-> Url("https", "sd.lan", "8188", "/proxy", <<<<"token", "t1">>>>)] }

DefaultPort(scheme) == IF scheme = "http" THEN "80" ELSE "443"

\* new URL(x): throws on input that is no URL ...
Parses(raw) == raw.valid

\* ... and otherwise yields the normalised URL: an empty path is "/", the
\* scheme's default port is dropped, the query is kept.
NewURL(raw) ==
    [raw.url EXCEPT !.path = IF @ = "" THEN "/" ELSE @,
                    !.port = IF @ = DefaultPort(raw.url.scheme) THEN "" ELSE @]

\* url.pathname = p: replaces the path and nothing else.
SetPathname(url, p) == [url EXCEPT !.path = p]

\* url.search = q: replaces the query and nothing else.
SetSearch(url, q) == [url EXCEPT !.query = q]

\* The URL a call site builds: new URL(request.body.url), then the pathname.
CallUrl(raw, p) == SetPathname(NewURL(raw), p)

-----------------------------------------------------------------------------
(* Outbound calls *)

PollDelay == 100

Call(method, url) == [op |-> method, url |-> url, ms |-> 0]
DelayFor(ms) == [op |-> "delay", url |-> NoUrl, ms |-> ms]
Delay == DelayFor(PollDelay)

\* How an awaited fetch ends: the promise rejects (network failure), or it
\* resolves with a non-2xx status, with a 2xx whose body is no JSON, or with
\* a 2xx whose body is the JSON the backend documents.
FetchOutcomes == {"reject", "non2xx", "notjson", "ok"}

-----------------------------------------------------------------------------
(* ComfyUI history entries *)

Img(filename, subfolder, type) ==
    [defined |-> TRUE, filename |-> filename, subfolder |-> subfolder, type |-> type]

Undefined == [defined |-> FALSE, filename |-> "", subfolder |-> "", type |-> ""]

ImgX == Img("x.png", "", "output")
ImgY == Img("y.png", "tmp", "temp")

\* item.outputs[node]: an object that has an images list, or has none.
NodeOut(images) == [hasImages |-> TRUE, images |-> images]
NoImages == [hasImages |-> FALSE, images |-> <<>>]

NodeOutputs == {NoImages, NodeOut(<<>>), NodeOut(<<ImgX>>), NodeOut(<<ImgY, ImgX>>)}

\* item.outputs, in Object.keys order.
Outputs == UNION {[1..n -> NodeOutputs] : n \in 0..MaxNodes}

JobIds == {"abc123", "def456"}
NoId == "none"

Absent == [present |-> FALSE, outputs |-> <<>>]
Entry(outputs) == [present |-> TRUE, outputs |-> outputs]

\* Object.keys(item.outputs).map(it => item.outputs[it].images): a node output
\* without an images list maps to undefined.
MapImages(outputs) ==
    [i \in 1..Len(outputs) |->
        IF outputs[i].hasImages THEN outputs[i].images ELSE <<Undefined>>]

\* .flat(): lists are spliced in, anything else (undefined) stays an element.
RECURSIVE Flat(_)
Flat(lists) == IF lists = <<>> THEN <<>> ELSE Head(lists) \o Flat(Tail(lists))

\* [0]: the first element, undefined when there is none.
First(list) == IF list = <<>> THEN Undefined ELSE list[1]

ImgInfo(entry) == First(Flat(MapImages(entry.outputs)))

ViewQuery(imgInfo) ==
    << <<"filename", imgInfo.filename>>,
       <<"subfolder", imgInfo.subfolder>>,
       <<"type", imgInfo.type>> >>

-----------------------------------------------------------------------------
(* /api/sd/comfy/generate *)

Flows == {"f1", "f2"}

Misses(r) == Cardinality({i \in 1..Len(outbound[r]) : outbound[r][i] = Delay})

Respond(r, code, payload) ==
    /\ pc' = [pc EXCEPT ![r] = "done"]
    /\ respStatus' = [respStatus EXCEPT ![r] = code]
    /\ respBody' = [respBody EXCEPT ![r] = payload]

Issue(r, call) == outbound' = [outbound EXCEPT ![r] = Append(@, call)]

Settle(r, result) == results' = [results EXCEPT ![r] = Append(@, result)]

\* Variant: only a rejected fetch throws, the status is not looked at.
ThrowsOnRejectOnly(outcome) == outcome = "reject"

\* if (!result.ok) throw ...; await result.json() throws on a body that is
\* no JSON; a rejected fetch throws at the await.
Throws(outcome) == outcome # "ok"

\* if (!imgResponse.ok) throw ...; the body is read with buffer(), as bytes.
ImgThrows(outcome) == outcome # "ok"

\* A request arrives: the URL is parsed and the submission POST is issued.
ComfyGenerate(r, raw) ==
    /\ pc[r] = "idle"
    /\ body' = [body EXCEPT ![r] = raw]
    /\ IF Parses(raw)
       THEN /\ Issue(r, Call("POST", CallUrl(raw, "/prompt")))
            /\ pc' = [pc EXCEPT ![r] = "submit"]
            /\ UNCHANGED <<respStatus, respBody>>
       ELSE /\ Respond(r, 500, "none")
            /\ UNCHANGED outbound
    /\ UNCHANGED <<id, item, results, history, relayVars, safeVars>>

\* The submission POST ends: on a 2xx the job id is read and the first
\* history GET is issued.
PromptResult(r, outcome, j) ==
    /\ pc[r] = "submit"
    /\ Settle(r, outcome)
    /\ IF ~Throws(outcome)
       THEN /\ id' = [id EXCEPT ![r] = j]
            /\ Issue(r, Call("GET", CallUrl(body[r], "/history")))
            /\ pc' = [pc EXCEPT ![r] = "poll"]
            /\ UNCHANGED <<respStatus, respBody>>
       ELSE /\ Respond(r, 500, "none")
            /\ UNCHANGED <<id, outbound>>
    /\ UNCHANGED <<body, item, history, relayVars, safeVars>>

\* Variant: the first recorded job of the mapping is taken, whoever owns it.
LookupAny(r) ==
    IF \E j \in JobIds : history[j].present
    THEN history[CHOOSE j \in JobIds : history[j].present]
    ELSE Absent

\* item = history[id]: the request's own job id is the key.
Lookup(r) == history[id[r]]

\* A history GET ends: the job is looked up in the mapping received.
HistoryResult(r, outcome) ==
    /\ pc[r] = "poll"
    /\ IF ~Throws(outcome)
       THEN LET found == Lookup(r)
                imgInfo == ImgInfo(found)
            IN  IF found.present
                THEN /\ item' = [item EXCEPT ![r] = found]
                     /\ Settle(r, "found")
                     /\ IF imgInfo.defined
                        THEN /\ Issue(r, Call("GET",
                                   SetSearch(CallUrl(body[r], "/view"), ViewQuery(imgInfo))))
                             /\ pc' = [pc EXCEPT ![r] = "view"]
                             /\ UNCHANGED <<respStatus, respBody>>
                        ELSE \* imgInfo.filename throws a TypeError
                             /\ Respond(r, 500, "none")
                             /\ UNCHANGED outbound
                ELSE /\ Misses(r) < MaxPolls
                     /\ Settle(r, "miss")
                     /\ Issue(r, Delay)
                     /\ pc' = [pc EXCEPT ![r] = "delay"]
                     /\ UNCHANGED <<item, respStatus, respBody>>
       ELSE /\ Settle(r, outcome)
            /\ Respond(r, 500, "none")
            /\ UNCHANGED <<item, outbound>>
    /\ UNCHANGED <<body, id, history, relayVars, safeVars>>

\* Variant: the loop is left after the first poll that missed.
WhileFirstMiss(r) == Misses(r) < 1

\* while (true): the loop has no condition of its own.
WhileTrue(r) == TRUE

\* delay(100) elapses: the loop condition is tested and the next history GET
\* is issued.  Leaving the loop with item undefined throws at item.outputs.
DelayElapsed(r) ==
    /\ pc[r] = "delay"
    /\ IF WhileTrue(r)
       THEN /\ Issue(r, Call("GET", CallUrl(body[r], "/history")))
            /\ pc' = [pc EXCEPT ![r] = "poll"]
            /\ UNCHANGED <<respStatus, respBody>>
       ELSE /\ Respond(r, 500, "none")
            /\ UNCHANGED outbound
    /\ UNCHANGED <<body, id, item, results, history, relayVars, safeVars>>

\* The asset GET ends.
ImgResponse(r, outcome) ==
    /\ pc[r] = "view"
    /\ Settle(r, outcome)
    /\ IF ~ImgThrows(outcome)
       THEN Respond(r, 200, "base64")
       ELSE Respond(r, 500, "none")
    /\ UNCHANGED <<body, id, item, outbound, history, relayVars, safeVars>>

\* The backend finishes a job and records it in its history.  The job is one
\* of the modelled requests or the job of some other client of the backend.
OtherOutputs == {<<NodeOut(<<ImgY>>)>>}

BackendRecords(j, outputs) ==
    /\ ~history[j].present
    /\ outputs \in IF \E r \in Flows : id[r] = j THEN Outputs ELSE OtherOutputs
    /\ history' = [history EXCEPT ![j] = Entry(outputs)]
    /\ UNCHANGED <<pc, body, id, item, outbound, results, respStatus, respBody, relayVars, safeVars>>

\* The requests in F run interleaved; the backend gives every submission a
\* job id of its own.
ComfyNext(F) ==
    \/ \E r \in F, raw \in RawUrls : ComfyGenerate(r, raw)
    \/ \E r \in F, outcome \in FetchOutcomes :
          \E j \in JobIds \ {id[q] : q \in Flows} : PromptResult(r, outcome, j)
    \/ \E r \in F, outcome \in FetchOutcomes : HistoryResult(r, outcome)
    \/ \E r \in F : DelayElapsed(r)
    \/ \E r \in F, outcome \in FetchOutcomes \ {"notjson"} : ImgResponse(r, outcome)
    \/ \E j \in JobIds, outputs \in Outputs \cup OtherOutputs : BackendRecords(j, outputs)

-----------------------------------------------------------------------------
(* The single-call handlers of stable-diffusion.js *)

\* How an awaited fetch to the SD WebUI or to a provider ends: as in
\* FetchOutcomes, with the non-2xx answers split by their body, a plain text
\* ("non2xx") or a JSON error object such as {"detail": ...} ("non2xxjson").
RelayOutcomes == {"reject", "non2xx", "non2xxjson", "notjson", "ok"}

Site(method, path, checksOk, sends) ==
    [method |-> method, path |-> path, checksOk |-> checksOk, sends |-> sends]

SdPing == Site("GET", "/sdapi/v1/options", TRUE, "status")
SdSamplers == Site("GET", "/sdapi/v1/samplers", TRUE, "data")
SdModels == Site("GET", "/sdapi/v1/sd-models", TRUE, "data")
SdGetModel == Site("GET", "/sdapi/v1/options", FALSE, "field")
SdGenerate == Site("POST", "/sdapi/v1/txt2img", TRUE, "data")
SdNextUpscalers == Site("GET", "/sdapi/v1/upscalers", TRUE, "names")
ComfyPing == Site("GET", "/system_stats", TRUE, "status")
ComfySamplers == Site("GET", "/object_info", TRUE, "data")
ComfyModels == Site("GET", "/object_info", TRUE, "data")
ComfySchedulers == Site("GET", "/object_info", TRUE, "data")
ComfyVaes == Site("GET", "/object_info", TRUE, "data")

SingleCall ==
    [h \in {"sd/ping", "sd/samplers", "sd/models", "sd/get-model", "sd/generate",
            "sd-next/upscalers", "comfy/ping", "comfy/samplers", "comfy/models",
            "comfy/schedulers", "comfy/vaes"} |->
        CASE h = "sd/ping" -> SdPing
          [] h = "sd/samplers" -> SdSamplers
          [] h = "sd/models" -> SdModels
          [] h = "sd/get-model" -> SdGetModel
          [] h = "sd/generate" -> SdGenerate
          [] h = "sd-next/upscalers" -> SdNextUpscalers
          [] h = "comfy/ping" -> ComfyPing
          [] h = "comfy/samplers" -> ComfySamplers
          [] h = "comfy/models" -> ComfyModels
          [] h = "comfy/schedulers" -> ComfySchedulers
          [] h = "comfy/vaes" -> ComfyVaes]

\* Upscaler names a backend may list.
UpscalerNames == {"None", "Lanczos", "ESRGAN_4x"}
LatentNames == {"Latent", "Latent (nearest)"}
NameLists(S) == UNION {[1..n -> S] : n \in 0..MaxList}

\* The list sd-next/upscalers inserts.
VladLatentUpscalers ==
    <<"Latent", "Latent (antialiased)", "Latent (bicubic)",
      "Latent (bicubic antialiased)", "Latent (nearest)", "Latent (nearest-exact)">>

Min(a, b) == IF a < b THEN a ELSE b

\* Variant: the items are appended (push) instead of spliced in.
SpliceAtEnd(list, start, items) == list \o items

\* list.splice(start, 0, ...items): items go in before position start (counted
\* from 0), at the end when the list is shorter.
Splice(list, start, items) ==
    LET at == Min(start, Len(list))
    IN  SubSeq(list, 1, at) \o items \o SubSeq(list, at + 1, Len(list))

Payload(kind, value) == [kind |-> kind, value |-> value]

\* response.sendStatus(s): the status and its name, nothing else.
NoPayload == Payload("none", <<>>)

Reply(s, payload) ==
    /\ rpc' = "done"
    /\ status' = s
    /\ sent' = payload

\* A request to a single-call handler arrives: the URL is parsed and the call
\* is issued.
SdRelay(h, raw) ==
    /\ rpc = "idle"
    /\ h \in DOMAIN SingleCall
    /\ handler' = h
    /\ req' = [req EXCEPT !.url = raw]
    /\ IF Parses(raw)
       THEN /\ calls' = Append(calls, Call(SingleCall[h].method, CallUrl(raw, SingleCall[h].path)))
            /\ rpc' = "await"
            /\ UNCHANGED <<status, sent>>
       ELSE /\ Reply(500, NoPayload)
            /\ UNCHANGED calls
    /\ UNCHANGED <<settled, inflight, got, attempt, keys, fileOnDisk, forwarded, comfyVars, safeVars>>

\* await result.json() succeeds on any JSON body, also that of a non-2xx.
JsonThrows(outcome) == outcome \in {"non2xx", "notjson"}

\* The call of a single-call handler ends.
SdRelayResult(outcome, names) ==
    /\ rpc = "await"
    /\ handler \in DOMAIN SingleCall
    /\ settled' = Append(settled, outcome)
    /\ LET site == SingleCall[handler]
       IN  IF outcome = "reject" \/ (site.checksOk /\ outcome \in {"non2xx", "non2xxjson"})
           THEN Reply(500, NoPayload)
           ELSE CASE site.sends = "status" -> Reply(200, NoPayload)
                  [] JsonThrows(outcome) -> Reply(500, NoPayload)
                  [] site.sends = "data" -> Reply(200, Payload("data", <<>>))
                  [] site.sends = "names" ->
                        Reply(200, Payload("data", Splice(names, 1, VladLatentUpscalers)))
                  [] site.sends = "field" ->
                        \* data['sd_model_checkpoint'], undefined in an error object
                        IF outcome = "ok"
                        THEN Reply(200, Payload("data", <<>>))
                        ELSE Reply(200, Payload("undefined", <<>>))
    /\ got' = IF SingleCall[handler].sends = "names" /\ outcome = "ok"
              THEN [got EXCEPT !["upscalers"] = names] ELSE got
    /\ UNCHANGED <<handler, req, calls, inflight, attempt, keys, fileOnDisk, forwarded, comfyVars, safeVars>>

-----------------------------------------------------------------------------
(* /api/sd/upscalers *)

UpscalerSites == {"upscalers", "latent"}

\* A request arrives: getUpscalerModels() and getLatentUpscalers() each parse
\* the URL and issue their GET; Promise.all awaits both.
SdUpscalers(raw) ==
    /\ rpc = "idle"
    /\ handler' = "sd/upscalers"
    /\ req' = [req EXCEPT !.url = raw]
    /\ IF Parses(raw)
       THEN /\ calls' = calls \o <<Call("GET", CallUrl(raw, "/sdapi/v1/upscalers")),
                                   Call("GET", CallUrl(raw, "/sdapi/v1/latent-upscale-modes"))>>
            /\ inflight' = UpscalerSites
            /\ rpc' = "await"
            /\ UNCHANGED <<status, sent>>
       ELSE /\ Reply(500, NoPayload)
            /\ UNCHANGED <<calls, inflight>>
    /\ UNCHANGED <<settled, got, attempt, keys, fileOnDisk, forwarded, comfyVars, safeVars>>

\* One of the two GETs ends with the list `names`.  The first failure rejects
\* Promise.all; the last success splices the latent names in after position 0.
UpscalersResult(site, outcome, names) ==
    /\ rpc = "await"
    /\ handler = "sd/upscalers"
    /\ site \in inflight
    /\ settled' = Append(settled, outcome)
    /\ inflight' = inflight \ {site}
    /\ got' = [got EXCEPT ![site] = IF outcome = "ok" THEN names ELSE @]
    /\ IF outcome # "ok"
       THEN Reply(500, NoPayload)
       ELSE IF inflight' = {}
            THEN Reply(200, Payload("data", Splice(got'["upscalers"], 1, got'["latent"])))
            ELSE UNCHANGED <<rpc, status, sent>>
    /\ UNCHANGED <<handler, req, calls, attempt, keys, fileOnDisk, forwarded, comfyVars, safeVars>>

-----------------------------------------------------------------------------
(* /api/sd/set-model *)

MAX_ATTEMPTS == 10
CHECK_INTERVAL == 2000

ProgressCall == Call("GET", CallUrl(req.url, "/sdapi/v1/progress"))

\* progress == 0.0 && jobCount === 0
LoadFinished(progress, jobCount) == progress = 0 /\ jobCount = 0

Report(progress, jobCount) ==
    IF LoadFinished(progress, jobCount) THEN "idle" ELSE "busy"

\* Variant: the loop admits the attempt numbered MAX_ATTEMPTS as well.
AttemptUpToMax(n) == n <= MAX_ATTEMPTS

\* attempt < MAX_ATTEMPTS
AttemptBelowMax(n) == n < MAX_ATTEMPTS

\* A request arrives: the URL is parsed and the options POST is issued.
SdSetModel(raw) ==
    /\ rpc = "idle"
    /\ handler' = "sd/set-model"
    /\ req' = [req EXCEPT !.url = raw]
    /\ IF Parses(raw)
       THEN /\ calls' = Append(calls, Call("POST", CallUrl(raw, "/sdapi/v1/options")))
            /\ rpc' = "await"
            /\ UNCHANGED <<status, sent>>
       ELSE /\ Reply(500, NoPayload)
            /\ UNCHANGED calls
    /\ UNCHANGED <<settled, inflight, got, attempt, keys, fileOnDisk, forwarded, comfyVars, safeVars>>

\* The options POST ends: on a 2xx (its body is not read) the loop starts
\* with attempt 0 and getProgress() issues the first progress GET.
SetModelResult(outcome) ==
    /\ rpc = "await"
    /\ handler = "sd/set-model"
    /\ settled' = Append(settled, outcome)
    /\ IF outcome \in {"ok", "notjson"}
       THEN /\ attempt' = 0
            /\ calls' = Append(calls, ProgressCall)
            /\ rpc' = "progress"
            /\ UNCHANGED <<status, sent>>
       ELSE /\ Reply(500, NoPayload)
            /\ UNCHANGED <<calls, attempt>>
    /\ UNCHANGED <<handler, req, inflight, got, keys, fileOnDisk, forwarded, comfyVars, safeVars>>

\* A progress GET ends.  The status is not looked at: the body is parsed, and
\* progressState["state"]["job_count"] throws on an error object.
ProgressResult(outcome, progress, jobCount) ==
    /\ rpc = "progress"
    /\ settled' = Append(settled, IF outcome = "ok" THEN Report(progress, jobCount)
                                                    ELSE outcome)
    /\ IF outcome = "ok"
       THEN IF LoadFinished(progress, jobCount)
            THEN /\ Reply(200, NoPayload)
                 /\ UNCHANGED calls
            ELSE /\ calls' = Append(calls, DelayFor(CHECK_INTERVAL))
                 /\ rpc' = "wait"
                 /\ UNCHANGED <<status, sent>>
       ELSE /\ Reply(500, NoPayload)
            /\ UNCHANGED calls
    /\ UNCHANGED <<handler, req, inflight, got, attempt, keys, fileOnDisk, forwarded, comfyVars, safeVars>>

\* delay(CHECK_INTERVAL) elapses: attempt++, and the loop goes on or ends.
SetModelDelayElapsed ==
    /\ rpc = "wait"
    /\ attempt' = attempt + 1
    /\ IF AttemptBelowMax(attempt')
       THEN /\ calls' = Append(calls, ProgressCall)
            /\ rpc' = "progress"
            /\ UNCHANGED <<status, sent>>
       ELSE /\ Reply(200, NoPayload)
            /\ UNCHANGED calls
    /\ UNCHANGED <<handler, req, settled, inflight, got, keys, fileOnDisk, forwarded, comfyVars, safeVars>>

-----------------------------------------------------------------------------
(* The hosted-provider handlers of src/unnamed/part_000 *)

Providers == {"openai", "openrouter"}
Apis == {"openai", "openrouter", "other"}

OpenAIHandlers == {"openai/caption-image", "openai/transcribe-audio",
                   "openai/generate-voice", "openai/generate-image"}

\* Variant: the OpenAI secret is read whatever the api of the request.
HasOpenAIKey(h, api) == "openai" \in keys

\* readSecret(...) yields the key of a configured provider and nothing otherwise.
HasKey(h, api) ==
    IF h = "openai/caption-image" THEN api \in Providers /\ api \in keys
    ELSE "openai" \in keys

ProviderUrl(h, api) ==
    CASE h = "openai/caption-image" /\ api = "openrouter" ->
            Url("https", "openrouter.ai", "", "/api/v1/chat/completions", <<>>)
      [] h = "openai/caption-image" /\ api # "openrouter" ->
            Url("https", "api.openai.com", "", "/v1/chat/completions", <<>>)
      [] h = "openai/transcribe-audio" ->
            Url("https", "api.openai.com", "", "/v1/audio/transcriptions", <<>>)
      [] h = "openai/generate-voice" ->
            Url("https", "api.openai.com", "", "/v1/audio/speech", <<>>)
      [] h = "openai/generate-image" ->
            Url("https", "api.openai.com", "", "/v1/images/generations", <<>>)

\* A request arrives (for transcribe-audio the upload is on disk already):
\* without the key 401, without the audio file 400, else the POST is issued.
OpenAIRequest(h, api, file) ==
    /\ rpc = "idle"
    /\ h \in OpenAIHandlers
    /\ handler' = h
    /\ req' = [req EXCEPT !.api = api, !.file = file /\ h = "openai/transcribe-audio"]
    /\ fileOnDisk' = req'.file
    /\ IF ~HasKey(h, api)
       THEN /\ Reply(401, NoPayload)
            /\ UNCHANGED calls
       ELSE IF h = "openai/transcribe-audio" /\ ~req'.file
            THEN /\ Reply(400, NoPayload)
                 /\ UNCHANGED calls
            ELSE /\ calls' = Append(calls, Call("POST", ProviderUrl(h, api)))
                 /\ rpc' = "await"
                 /\ UNCHANGED <<status, sent>>
    /\ UNCHANGED <<settled, inflight, got, attempt, keys, forwarded, comfyVars, safeVars>>

\* Variant: the error text is logged only.
OpaqueErrorReply == Reply(500, NoPayload)

\* if (!result.ok): the provider's text goes to the caller with status 500.
ErrorReply == Reply(500, Payload("errtext", <<>>))

\* catch (error): response.status(500).send('Internal server error').
CaughtReply == Reply(500, Payload("literal", <<>>))

\* Variant: the file is removed however the provider call ended.
RmSyncAlways(h, outcome) == h = "openai/transcribe-audio"

\* fs.rmSync(request.file.path) is reached after the result.ok test, before
\* the body is read.
RmSync(h, outcome) ==
    h = "openai/transcribe-audio" /\ outcome \in {"ok", "notjson"}

\* The provider call ends.  In transcribe-audio a 2xx answer leaves the
\* handler at await result.json(), the file removed and nothing sent yet.
OpenAIResult(outcome, caption) ==
    /\ rpc = "await"
    /\ handler \in OpenAIHandlers
    /\ settled' = Append(settled, outcome)
    /\ fileOnDisk' = IF RmSync(handler, outcome) THEN FALSE ELSE fileOnDisk
    /\ forwarded' = IF outcome \in {"non2xx", "non2xxjson"}
                    THEN forwarded \cup {handler} ELSE forwarded
    /\ CASE outcome = "reject" -> CaughtReply
         [] outcome \in {"non2xx", "non2xxjson"} -> ErrorReply
         [] outcome \in {"ok", "notjson"} /\ handler = "openai/transcribe-audio" ->
               rpc' = "json" /\ UNCHANGED <<status, sent>>
         [] outcome = "notjson" /\ handler # "openai/transcribe-audio" ->
               IF handler = "openai/generate-voice"
               THEN Reply(200, Payload("data", <<>>))   \* read with arrayBuffer()
               ELSE CaughtReply
         [] outcome = "ok" /\ handler # "openai/transcribe-audio" ->
               IF handler = "openai/caption-image" /\ ~caption
               THEN Reply(500, Payload("literal", <<>>))   \* 'No caption found'
               ELSE Reply(200, Payload("data", <<>>))
    /\ UNCHANGED <<handler, req, calls, inflight, got, attempt, keys, comfyVars, safeVars>>

\* transcribe-audio: await result.json() ends and the response is sent.
TranscribeJson ==
    /\ rpc = "json"
    /\ IF settled[Len(settled)] = "ok"
       THEN Reply(200, Payload("data", <<>>))
       ELSE CaughtReply
    /\ UNCHANGED <<handler, req, calls, settled, inflight, got, attempt, keys,
                   fileOnDisk, forwarded, comfyVars, safeVars>>

-----------------------------------------------------------------------------
(* safeStr.  A string is kept as its runs: a sequence of [c, n], n >= 1      *)
(* copies of the character c, adjacent runs having different characters.   *)

SafeStrPasses == 16

Run(c, n) == [c |-> c, n |-> n]

Whitespace == {" ", "\t"}
Trimmed == Whitespace \cup {",", "."}
Chars == Trimmed \cup {"a"}

\* Run lengths around what the passes can and cannot collapse.
RunLengths == {1, 2, 3, 2 ^ SafeStrPasses, 2 ^ SafeStrPasses + 1}

Strings ==
    {s \in UNION {[1..k -> [c : Chars, n : RunLengths]] : k \in 0..MaxRuns} :
        \A i \in 1..(Len(s) - 1) : s[i].c # s[i + 1].c}

\* x.replace(/  /g, ' '): every pair of spaces, matched left to right without
\* overlap, becomes one space; an odd space at the end of a run stays.
ReplaceDoubleSpaces(s) ==
    [i \in 1..Len(s) |->
        IF s[i].c = " " THEN Run(" ", (s[i].n \div 2) + (s[i].n % 2)) ELSE s[i]]

\* for (let i = 0; i < 16; i++) x = x.replace(/  /g, ' ')
RECURSIVE Collapse(_, _)
Collapse(s, i) == IF i = 0 THEN s ELSE Collapse(ReplaceDoubleSpaces(s), i - 1)

\* Drop the longest prefix and the longest suffix made of characters in C.
RECURSIVE DropLeading(_, _)
DropLeading(s, C) ==
    IF s # <<>> /\ Head(s).c \in C THEN DropLeading(Tail(s), C) ELSE s

RECURSIVE DropTrailing(_, _)
DropTrailing(s, C) ==
    IF s # <<>> /\ s[Len(s)].c \in C
    THEN DropTrailing(SubSeq(s, 1, Len(s) - 1), C) ELSE s

\* x.trim()
Trim(s) == DropTrailing(DropLeading(s, Whitespace), Whitespace)

\* x.replace(/^[\s,.]+|[\s,.]+$/g, '')
StripEnds(s) == DropTrailing(DropLeading(s, Trimmed), Trimmed)

safeStr(s) == StripEnds(Trim(Collapse(s, SafeStrPasses)))

\* A prompt is sanitized, and the result is sanitized again.
SafeStrOnce ==
    /\ spc = "input"
    /\ once' = safeStr(x)
    /\ spc' = "once"
    /\ UNCHANGED <<x, twice, comfyVars, relayVars>>

SafeStrTwice ==
    /\ spc = "once"
    /\ twice' = safeStr(once)
    /\ spc' = "twice"
    /\ UNCHANGED <<x, once, comfyVars, relayVars>>

SafeIdle ==
    /\ x = <<>>
    /\ once = <<>>
    /\ twice = <<>>
    /\ spc = "input"

-----------------------------------------------------------------------------
(* Specifications *)

ComfyIdle ==
    /\ pc = [r \in Flows |-> "idle"]
    /\ body = [r \in Flows |-> [valid |-> FALSE, url |-> NoUrl]]
    /\ id = [r \in Flows |-> NoId]
    /\ item = [r \in Flows |-> Absent]
    /\ outbound = [r \in Flows |-> <<>>]
    /\ results = [r \in Flows |-> <<>>]
    /\ respStatus = [r \in Flows |-> 0]
    /\ respBody = [r \in Flows |-> "none"]
    /\ history = [j \in JobIds |-> Absent]

NoRequest == [url |-> [valid |-> FALSE, url |-> NoUrl], api |-> "other", file |-> FALSE]

RelayIdle ==
    /\ handler = "none"
    /\ rpc = "idle"
    /\ req = NoRequest
    /\ calls = <<>>
    /\ settled = <<>>
    /\ inflight = {}
    /\ got = [s \in UpscalerSites |-> <<>>]
    /\ attempt = 0
    /\ status = 0
    /\ sent = NoPayload
    /\ fileOnDisk = FALSE

\* The handlers are registered once and serve one request after another.
NextRequest ==
    /\ rpc = "done"
    /\ handler' = "none"
    /\ rpc' = "idle"
    /\ req' = NoRequest
    /\ calls' = <<>>
    /\ settled' = <<>>
    /\ inflight' = {}
    /\ got' = [s \in UpscalerSites |-> <<>>]
    /\ attempt' = 0
    /\ status' = 0
    /\ sent' = NoPayload
    /\ fileOnDisk' = FALSE
    /\ UNCHANGED <<keys, forwarded, comfyVars, safeVars>>

\* No request has arrived; any set of secrets may be configured.
Init ==
    /\ ComfyIdle
    /\ RelayIdle
    /\ keys \in SUBSET Providers
    /\ forwarded = {}
    /\ SafeIdle

RelayNext ==
    \/ \E h \in DOMAIN SingleCall, raw \in RawUrls : SdRelay(h, raw)
    \/ \E outcome \in RelayOutcomes, names \in NameLists(UpscalerNames) :
          SdRelayResult(outcome, names)
    \/ \E raw \in RawUrls : SdUpscalers(raw)
    \/ \E site \in UpscalerSites, outcome \in RelayOutcomes :
          \E names \in NameLists(IF site = "latent" THEN LatentNames ELSE UpscalerNames) :
              UpscalersResult(site, outcome, names)
    \/ \E raw \in RawUrls : SdSetModel(raw)
    \/ \E outcome \in RelayOutcomes : SetModelResult(outcome)
    \/ \E outcome \in RelayOutcomes, progress \in {0, 1}, jobCount \in {0, 1} :
          ProgressResult(outcome, progress, jobCount)
    \/ SetModelDelayElapsed
    \/ \E h \in OpenAIHandlers, api \in Apis, file \in BOOLEAN : OpenAIRequest(h, api, file)
    \/ \E outcome \in RelayOutcomes, caption \in BOOLEAN : OpenAIResult(outcome, caption)
    \/ TranscribeJson
    \/ NextRequest

\* One generate request against a backend that also serves other clients.
SpecComfy == Init /\ [][ComfyNext({"f1"})]_vars

\* Two generate requests interleaved.  The entries the backend records are
\* a selection of Outputs: one image, two images, no images list.
PairOutputs ==
    {<<NodeOut(<<ImgX>>)>>, <<NodeOut(<<ImgY, ImgX>>)>>, <<NoImages>>}

ComfyPairNext ==
    \/ \E r \in Flows, raw \in RawUrls : ComfyGenerate(r, raw)
    \/ \E r \in Flows, outcome \in FetchOutcomes :
          \E j \in JobIds \ {id[q] : q \in Flows} : PromptResult(r, outcome, j)
    \/ \E r \in Flows, outcome \in FetchOutcomes : HistoryResult(r, outcome)
    \/ \E r \in Flows : DelayElapsed(r)
    \/ \E r \in Flows, outcome \in FetchOutcomes \ {"notjson"} : ImgResponse(r, outcome)
    \/ \E j \in JobIds, outputs \in PairOutputs \cup OtherOutputs : BackendRecords(j, outputs)

ComfyPairInit ==
    /\ ComfyIdle
    /\ RelayIdle
    /\ keys = {}
    /\ forwarded = {}
    /\ SafeIdle

SpecComfyPair == ComfyPairInit /\ [][ComfyPairNext]_vars

\* One request to any of the other handlers.
SpecRelay == Init /\ [][RelayNext]_vars

\* safeStr on every string within the bounds.
SafeStrInit ==
    /\ ComfyIdle
    /\ RelayIdle
    /\ keys = {}
    /\ forwarded = {}
    /\ x \in Strings
    /\ once = <<>>
    /\ twice = <<>>
    /\ spc = "input"

SafeStrNext == SafeStrOnce \/ SafeStrTwice

SpecSafeStr == SafeStrInit /\ [][SafeStrNext]_vars

-----------------------------------------------------------------------------
(* Properties of /api/sd/comfy/generate *)

\* The images of an entry in node order, node outputs without images skipped.
ImagesOf(entry) ==
    Flat([i \in 1..Len(entry.outputs) |->
            IF entry.outputs[i].hasImages THEN entry.outputs[i].images ELSE <<>>])

HasImage(entry) == entry.present /\ ImagesOf(entry) # <<>>

HistoryCall(r) == Call("GET", CallUrl(body[r], "/history"))
ViewCall(r, img) == Call("GET", SetSearch(CallUrl(body[r], "/view"), ViewQuery(img)))

RECURSIVE MissedPolls(_, _)
MissedPolls(r, k) ==
    IF k = 0 THEN <<>> ELSE <<HistoryCall(r), Delay>> \o MissedPolls(r, k - 1)

\* One submission, k polls that missed (a delay after each), the poll that
\* found the job, one asset fetch for img.
FoundAfter(r, k, img) ==
    <<Call("POST", CallUrl(body[r], "/prompt"))>> \o MissedPolls(r, k)
        \o <<HistoryCall(r), ViewCall(r, img)>>

IsCall(e) == e # Delay
CallsOf(r) == SelectSeq(outbound[r], IsCall)
Failures == {"reject", "non2xx", "notjson"}

\* C1: once a poll has returned a mapping that contains the job with an output
\* image, after k polls that missed, the flow has issued exactly one submission
\* POST, k+1 history GETs with a delay after each miss, and then one asset GET
\* for that image, and nothing after it.
ComfyCallSequence ==
    \A r \in Flows :
        HasImage(item[r]) =>
            outbound[r] = FoundAfter(r, Misses(r), ImagesOf(item[r])[1])

\* The same for the entries whose first flattened output is an image.
ComfyCallSequenceFirstOutput ==
    \A r \in Flows :
        (item[r].present /\ ImgInfo(item[r]).defined) =>
            outbound[r] = FoundAfter(r, Misses(r), ImgInfo(item[r]))

ComfyCallSequenceReached ==
    \E r \in Flows :
        /\ HasImage(item[r])
        /\ Misses(r) = 2
        /\ respStatus[r] = 200

\* C5: a failed submission, poll or asset fetch is the last outbound call of
\* the flow and is answered 500 without payload; a delay (and so a further
\* poll) follows only a 2xx history response that lacks the job id.
ComfyFailureTerminal ==
    \A r \in Flows :
        /\ \A i \in 1..Len(results[r]) :
              results[r][i] \in Failures =>
                  /\ i = Len(results[r])
                  /\ Len(CallsOf(r)) = i
                  /\ outbound[r][Len(outbound[r])] # Delay
                  /\ pc[r] = "done"
                  /\ respStatus[r] = 500
                  /\ respBody[r] = "none"
        /\ \A i \in 1..Len(outbound[r]) :
              outbound[r][i] = Delay =>
                  LET n == Len(SelectSeq(SubSeq(outbound[r], 1, i), IsCall))
                  IN  /\ n >= 2
                      /\ n <= Len(results[r])
                      /\ results[r][n] = "miss"
                      /\ outbound[r][i - 1] = HistoryCall(r)
        /\ Len(SelectSeq(outbound[r], LAMBDA e : e.op = "POST")) <= 1

\* A poll failed after an earlier poll had missed.
ComfyFailureTerminalReached ==
    \E r \in Flows :
        /\ Len(results[r]) >= 3
        /\ results[r][2] = "miss"
        /\ results[r][Len(results[r])] = "non2xx"
        /\ pc[r] = "done"

\* C7: once the job's entry is found and some node output of it holds an
\* image, exactly one asset GET is issued, for the first image in node order.
ComfyFirstImageFetched ==
    \A r \in Flows :
        HasImage(item[r]) =>
            /\ Len(SelectSeq(outbound[r], LAMBDA e : e.url.path = "/view")) = 1
            /\ outbound[r][Len(outbound[r])] = ViewCall(r, ImagesOf(item[r])[1])

\* Everything the handler of request r holds.
FlowState(r) ==
    <<pc[r], body[r], id[r], item[r], outbound[r], results[r], respStatus[r], respBody[r]>>

IsView(e) == e.url.path = "/view"

FlowOwnsItsJob(r) ==
    /\ item[r].present <=> \E i \in 1..Len(results[r]) : results[r][i] = "found"
    /\ item[r].present => history[id[r]].present /\ item[r] = history[id[r]]
    /\ \A i \in 1..Len(outbound[r]) :
          IsView(outbound[r][i]) =>
              /\ item[r].present
              /\ outbound[r][i] = ViewCall(r, ImgInfo(history[id[r]]))
    /\ \A q \in Flows \ {r} : id[r] # NoId => id[q] # id[r]

FlowStepsAlone(r) ==
    /\ FlowState(r)' # FlowState(r) =>
          \A q \in Flows \ {r} : FlowState(q)' = FlowState(q)
    /\ (item'[r].present /\ ~item[r].present) =>
          history[id[r]].present /\ item'[r] = history[id[r]]
    /\ respStatus[r] # 0 =>
          respStatus'[r] = respStatus[r] /\ respBody'[r] = respBody[r]

\* C11: two interleaved generate requests with different job ids are
\* independent: a flow's polling ends only on its own job's entry, its asset
\* GET is for its own entry, every step changes one flow only, and a response
\* once sent is not altered by the other flow.
ComfyFlowsIndependent ==
    /\ [](\A r \in Flows : FlowOwnsItsJob(r))
    /\ [][\A r \in Flows : FlowStepsAlone(r)]_vars

\* One flow failed on a non-2xx while its job was recorded; the other, after
\* a poll that missed, fetched the asset of its own, different entry.
ComfyFlowsIndependentReached ==
    /\ respStatus["f1"] = 500
    /\ results["f1"] # <<>> /\ results["f1"][Len(results["f1"])] = "non2xx"
    /\ id["f1"] # NoId /\ id["f2"] # NoId
    /\ history[id["f1"]].present
    /\ respStatus["f2"] = 200
    /\ Misses("f2") >= 1
    /\ item["f2"] # history[id["f1"]]

Last(s) == s[Len(s)]

HistoryCalls(r) ==
    Cardinality({i \in 1..Len(outbound[r]) : outbound[r][i] = HistoryCall(r)})

\* A history GET of r has just been answered 2xx with a mapping without r's job.
MissedNow(r) == pc[r] = "poll" /\ results'[r] = Append(results[r], "miss")

PollingStep(r) ==
    /\ MissedNow(r) =>
          /\ pc'[r] = "delay"
          /\ outbound'[r] = Append(outbound[r], Delay)
          /\ respStatus'[r] = 0 /\ ~item'[r].present
    /\ (pc[r] = "delay" /\ FlowState(r)' # FlowState(r)) =>
          /\ pc'[r] = "poll"
          /\ outbound'[r] = Append(outbound[r], HistoryCall(r))
          /\ respStatus'[r] = 0 /\ ~item'[r].present

\* While the job is pending the flow has sent nothing, and it has issued one
\* history GET more than it has waited, or as many when it is waiting.
PendingKeepsPolling(r) ==
    /\ pc[r] \in {"poll", "delay"} =>
          /\ respStatus[r] = 0 /\ ~item[r].present
          /\ HistoryCalls(r) = Misses(r) + (IF pc[r] = "poll" THEN 1 ELSE 0)
    /\ (pc[r] = "done" /\ results[r] # <<>>) => Last(results[r]) # "miss"
    /\ respStatus[r] \in {0, 200, 500}

\* C12: the polling loop never gives up on its own: a 2xx history answer
\* without the job id is always followed by the delay and another history
\* GET, whatever the number of polls before it; a response is sent only after
\* the job was found or a call failed, and no timeout outcome exists.
ComfyPollingNeverGivesUp ==
    /\ [](\A r \in Flows : PendingKeepsPolling(r))
    /\ [][\A r \in Flows : PollingStep(r)]_vars

\* The flow polls again after as many misses as the model allows, nothing sent.
ComfyPollingNeverGivesUpReached ==
    /\ pc["f1"] = "poll"
    /\ Misses("f1") >= MaxPolls
    /\ HistoryCalls("f1") = Misses("f1") + 1
    /\ respStatus["f1"] = 0

-----------------------------------------------------------------------------
(* Properties of the other handlers *)

Non2xx == {"non2xx", "non2xxjson"}

\* The handlers that take the backend's base URL from the request body.
UrlHandlers == DOMAIN SingleCall \cup {"sd/upscalers", "sd/set-model"}

SubPaths(h) ==
    CASE h = "sd/upscalers" -> {"/sdapi/v1/upscalers", "/sdapi/v1/latent-upscale-modes"}
      [] h = "sd/set-model" -> {"/sdapi/v1/options", "/sdapi/v1/progress"}
      [] OTHER -> {SingleCall[h].path}

\* C2: a handler one of whose backend calls returned a non-2xx status answers
\* its caller with a failure status, never with a 2xx.
Non2xxAnsweredWithFailure ==
    (rpc = "done" /\ \E i \in 1..Len(settled) : settled[i] \in Non2xx) =>
        status >= 400

\* C3: every outbound URL is the base URL of the request with its path
\* replaced by the call site's sub-path: same scheme, host and port, and no
\* query left over from the base URL.
OutboundUrlIsBasePlusSubPath ==
    handler \in UrlHandlers =>
        \A i \in 1..Len(calls) :
            calls[i].op # "delay" =>
                LET base == NewURL(req.url)
                    u == calls[i].url
                IN  /\ u.scheme = base.scheme
                    /\ u.host = base.host
                    /\ u.port = base.port
                    /\ u.path \in SubPaths(handler)
                    /\ u.query = <<>>

\* C4: a request whose base URL does not parse is answered with a 4xx status
\* before any outbound call is issued.
MalformedUrlIsClientError ==
    (handler \in UrlHandlers /\ rpc = "done" /\ ~req.url.valid) =>
        /\ calls = <<>>
        /\ status \in 400..499

UpscalersComposed ==
    (/\ handler \in {"sd/upscalers", "sd-next/upscalers"}
     /\ status = 200
     /\ got["upscalers"] # <<>>
     /\ got["upscalers"][1] = "None") =>
        LET latent == IF handler = "sd/upscalers" THEN got["latent"]
                      ELSE VladLatentUpscalers
        IN  /\ sent.kind = "data"
            /\ sent.value = <<"None">> \o latent \o Tail(got["upscalers"])
            /\ Len(sent.value) = Len(got["upscalers"]) + Len(latent)

UpscalersComposedReached ==
    /\ handler = "sd/upscalers"
    /\ status = 200
    /\ got["upscalers"] = <<"None", "Lanczos">>
    /\ got["latent"] = <<"Latent (nearest)", "Latent">>

\* C9: a provider handler whose API secret is not configured (caption-image:
\* also when the api is neither openai nor openrouter) answers 401 and issues
\* no outbound call.
SecretMissing ==
    IF handler = "openai/caption-image"
    THEN req.api \notin {"openai", "openrouter"} \/ req.api \notin keys
    ELSE "openai" \notin keys

MissingSecretIs401 ==
    (handler \in OpenAIHandlers /\ SecretMissing) =>
        /\ rpc = "done"
        /\ status = 401
        /\ calls = <<>>
        /\ settled = <<>>

MissingSecretReached ==
    \/ /\ handler = "openai/caption-image"
       /\ req.api = "other"
       /\ keys = Providers
       /\ status = 401
    \/ /\ handler = "openai/transcribe-audio"
       /\ req.file
       /\ keys = {"openrouter"}
       /\ status = 401


-----------------------------------------------------------------------------
(* Properties of safeStr *)

\* C10: sanitizing a sanitized string changes nothing:
\* safeStr(safeStr(x)) = safeStr(x) for every x.
SafeStrIdempotent == spc = "twice" => twice = once

\* The same for the strings whose runs of spaces are at most 2^16 long.
SafeStrIdempotentShortRuns ==
    (spc = "twice" /\ \A i \in 1..Len(x) : x[i].c = " " => x[i].n <= 2 ^ SafeStrPasses) =>
        twice = once

OptionsCall == Call("POST", CallUrl(req.url, "/sdapi/v1/options"))

CountIn(log, e) == Cardinality({i \in 1..Len(log) : log[i] = e})

\* The options POST was answered 2xx.
OptionsAccepted ==
    /\ handler = "sd/set-model"
    /\ settled # <<>> /\ settled[1] \in {"ok", "notjson"}

\* Every progress GET answered so far was read and reported something.
PollsReported == \A i \in 2..Len(settled) : settled[i] \in {"idle", "busy"}

\* C13: in /api/sd/set-model, after a 2xx answer to the options POST there
\* is one options POST and at most MAX_ATTEMPTS progress GETs; a poll that
\* reports idle is the last call and is answered 200; the fixed delay follows
\* a poll exactly when it reported busy; the handler answers 200 when its
\* polls have reported, also when all MAX_ATTEMPTS of them reported busy.
SetModelPolling ==
    OptionsAccepted =>
        /\ CountIn(calls, OptionsCall) = 1 /\ calls[1] = OptionsCall
        /\ CountIn(calls, ProgressCall) <= MAX_ATTEMPTS
        /\ CountIn(calls, ProgressCall) = Len(settled) - 1 + (IF rpc = "progress" THEN 1 ELSE 0)
        /\ \A i \in 2..Len(settled) :
              settled[i] = "idle" =>
                  /\ i = Len(settled) /\ rpc = "done" /\ status = 200
                  /\ calls[Len(calls)] = ProgressCall
        /\ CountIn(calls, DelayFor(CHECK_INTERVAL)) = CountIn(settled, "busy")
        /\ \A i \in 1..Len(calls) :
              calls[i] = DelayFor(CHECK_INTERVAL) =>
                  /\ calls[i - 1] = ProgressCall
                  /\ settled[(i \div 2) + 1] = "busy"
        /\ (rpc = "done" /\ PollsReported) => status = 200
        /\ (rpc = "done" /\ status = 200) =>
              \/ settled[Len(settled)] = "idle"
              \/ CountIn(settled, "busy") = MAX_ATTEMPTS

\* All MAX_ATTEMPTS polls reported busy and the handler answered 200.
SetModelPollingReached ==
    /\ OptionsAccepted
    /\ rpc = "done" /\ status = 200
    /\ CountIn(settled, "busy") = MAX_ATTEMPTS
    /\ CountIn(calls, ProgressCall) = MAX_ATTEMPTS

\* The provider call of a transcribe-audio request has ended.
TranscribeCalled ==
    /\ handler = "openai/transcribe-audio"
    /\ settled # <<>>

\* C14: in /api/openai/transcribe-audio the uploaded file is removed exactly
\* when the provider call returned 2xx: after a non-2xx answer or a rejected
\* call the handler answers 500 and the file is still on disk; after a 2xx the
\* file is gone while the response is not sent yet, and stays gone.  A
\* request that made no provider call leaves the file as it was uploaded.
TranscribeFileRemovedIffOk ==
    handler = "openai/transcribe-audio" =>
        /\ ~TranscribeCalled => fileOnDisk = req.file
        /\ TranscribeCalled =>
              /\ req.file /\ HasKey(handler, req.api)
              /\ fileOnDisk <=> settled[1] \notin {"ok", "notjson"}
              /\ settled[1] \notin {"ok", "notjson"} =>
                    rpc = "done" /\ status = 500 /\ fileOnDisk
              /\ rpc = "json" =>
                    status = 0 /\ ~fileOnDisk /\ settled[1] \in {"ok", "notjson"}
              /\ (rpc = "done" /\ settled[1] = "ok") => status = 200

\* The provider answered non-2xx: 500 was sent and the file is on disk.
TranscribeFileRemovedIffOkReached ==
    /\ TranscribeCalled
    /\ settled[1] \in Non2xx
    /\ rpc = "done" /\ status = 500
    /\ fileOnDisk

=============================================================================
